---- MODULE Spec2Model ----
\* sqltools_mcp: the adapter contract (adapters/*.py), the adapter factory
\* (adapters/factory.py) and the connection manager (connection_manager.py),
\* as a state machine over adapter objects and native connection handles.
EXTENDS Integers, Sequences, FiniteSets, TLC

\* ---------------------------------------------------------------- bounds
\* Adapter objects constructed over a run (the manager makes one per connect).
MaxAdapters == 2
\* Native connection handles the drivers hand out over a run.
MaxHandles == 3
\* Tables (or columns) a catalog query returns.
MaxItems == 3
\* Adapters the server builds over a run, at startup and through the
\* connect_database tool.
MaxToolConnects == 1

\* ------------------------------------------------------------ vocabulary
\* The five canonical engine tags (factory.py:43, config.py:62).
Engines == {"mysql", "postgres", "mssql", "dm8", "sqlite"}

\* Tags given to the factory: the canonical ones, the synonyms, mixed-case
\* spellings and unsupported ones.
Tags ==
    Engines \cup {"postgresql", "sqlserver", "dameng"}
            \cup {"MySQL", "POSTGRESQL", "SqlServer", "DM8", "SQLite"}
            \cup {"oracle", "Oracle", ""}

\* Tags given to the manager's connect(): one adapter of each kind the manager
\* can tell apart (MSSQLAdapter differs from MySQLAdapter only in its statement
\* keywords), and an unsupported tag.
ConnectTags == {"mysql", "postgres", "dm8", "sqlite", "oracle"}

\* dbname arguments: a path / database name, and for the embedded engine the
\* in-memory sentinel as well.
DbNames(tag) ==
    IF tag = "sqlite" THEN {":memory:", "app"} ELSE {"app"}

\* A factory that forgets to fold the case of its argument.
Lower_identity(tag) ==
    tag

\* str.lower() on the tags in use (factory.py:25).
Lower(tag) ==
    CASE tag = "MySQL" -> "mysql"
      [] tag = "POSTGRESQL" -> "postgresql"
      [] tag = "SqlServer" -> "sqlserver"
      [] tag = "DM8" -> "dm8"
      [] tag = "SQLite" -> "sqlite"
      [] tag = "Oracle" -> "oracle"
      [] OTHER -> tag

\* The engine a lower-cased tag selects, "" when unsupported (factory.py:27-44).
CanonicalOf(t) ==
    CASE t = "mysql" -> "mysql"
      [] t \in {"postgres", "postgresql"} -> "postgres"
      [] t \in {"mssql", "sqlserver"} -> "mssql"
      [] t \in {"dm8", "dameng"} -> "dm8"
      [] t = "sqlite" -> "sqlite"
      [] OTHER -> ""

\* Adapters whose connect() wraps its body in `except Exception`; the others
\* catch only their driver's Error class.
ConnectCatchesAll == {"dm8", "sqlite"}

\* Adapters whose execute_query/list_tables/describe_table catch `Exception`;
\* the others catch only their driver's Error class.
QueryCatchesAll == {"dm8"}

\* Adapters that test a precondition before the native handshake: the SQLite
\* file path (sqlite.py:43) and the DM8 JDBC jar (dm8.py:78-83).
HasPreCheck == {"dm8", "sqlite"}

\* Sets of third-party drivers importable in the process (the *_AVAILABLE
\* module flags); sqlite3 is built in.
DriverSets == {Engines, Engines \ {"dm8"}}

\* What the environment does during one connect(): whether the artifact the
\* pre-check looks for is present, the step at which the driver raises and the
\* class of what it raises.  A connect whose artifact is absent is listed
\* once, as is one that succeeds.
ConnectEnvs ==
    {e \in [present : BOOLEAN,
            failAt : {"none", "handshake", "verify"},
            err : {"driver", "other"}] :
        /\ e.failAt = "none" => e.err = "driver"
        /\ ~e.present => e.failAt = "none"}

\* Whether the native close() raises, for a call that closes handle h; a call
\* that closes nothing (h = 0) has one outcome.
CloseOutcomes(h) ==
    IF h = 0 THEN {FALSE} ELSE BOOLEAN

\* ------------------------------------------------------------------ state
VARIABLES
    drivers,     \* engines whose driver module imported
    adapters,    \* every adapter object constructed so far
    handles,     \* native handle id -> "free" | "open" | "closed"
    mgrAdapter,  \* DatabaseManager.adapter: 0 (None) or an index of adapters
    mgrConfig,   \* DatabaseManager.config: NoConfig or a config record
    mgrInfo,     \* DatabaseManager.connection_info: "None" or "info"
    res,         \* outcome of the last manager / adapter / factory call
    log,         \* calls the last call made, in order
    tool         \* what server.py did last: a step of app_lifespan, or the
                 \* response of a tool call

vars ==
    <<drivers, adapters, handles, mgrAdapter, mgrConfig, mgrInfo, res, log,
      tool>>

NoConfig ==
    [dbtype |-> "", port |-> 0, password |-> "", dbname |-> "", set |-> FALSE]

\* DatabaseConfig(dbtype, host, port, username, password, dbname) as the
\* manager stores it.
DatabaseConfig(dbtype, port, password, dbname) ==
    [dbtype |-> dbtype, port |-> port, password |-> password,
     dbname |-> dbname, set |-> TRUE]

\* Passwords given to connect().
Passwords == {"pw1", "pw2"}

\* A serialization that includes the password.
to_dict_with_password(cfg) ==
    [dbtype |-> cfg.dbtype, port |-> cfg.port, password |-> cfg.password,
     dbname |-> cfg.dbname]

\* DatabaseConfig.to_dict(): the fields of the config without the password.
to_dict(cfg) ==
    [dbtype |-> cfg.dbtype, port |-> cfg.port, dbname |-> cfg.dbname]

\* DatabaseAdapter.__init__: no handle, not connected.  `last` records how the
\* most recent connect() on the object ended ("none" | "ok" | "failed").
NewAdapter(eng) ==
    [db_type |-> eng, conn |-> 0, connected |-> FALSE, last |-> "none"]

\* The outcome record of a call.  columns, rows and affected_rows are the
\* QueryResult fields of those names ("None" or "set", None being the
\* dataclass default); sql and desc are the statement the try block of
\* execute_query ran and whether its cursor had a description; tag and
\* supported are get_adapter's argument and the list its ValueError names.
Result(op, obj, raised, success, error, message, payload) ==
    [op |-> op, obj |-> obj, raised |-> raised, success |-> success,
     error |-> error, message |-> message, payload |-> payload,
     columns |-> "None", rows |-> "None", affected_rows |-> "None",
     sql |-> <<>>, desc |-> FALSE, tag |-> "", supported |-> <<>>]

NoResult == Result("init", 0, "none", TRUE, "none", "", "none")

\* The response dict of a tool call, with the arguments the tool was given
\* (arg_*), whether it called the manager, the dbtype and port it passed, and
\* the list the manager returned to it (full); config is the connection_info
\* key of get_connection_status.  Keys a response does not carry keep the
\* values below; raised is what the tool function let escape.
ToolResponse(op) ==
    [op |-> op, raised |-> "none", success |-> FALSE, error |-> "",
     message |-> "",
     suggestions |-> "none", supported_types |-> <<>>,
     arg_dbtype |-> "", arg_port |-> 0, arg_limit |-> 0, arg_offset |-> 0,
     called |-> FALSE, passed_dbtype |-> "", passed_port |-> 0,
     full |-> <<>>,
     connection_info |-> "None",
     columns |-> "None", rows |-> "None", affected_rows |-> "None",
     tables |-> <<>>, table_count |-> 0, total_count |-> 0, offset |-> 0,
     limit |-> 0, column_count |-> 0,
     connected |-> FALSE, db_type |-> "", config |-> "None"]

\* The server has not started: app_lifespan has not been entered and no tool
\* has been called.
NoTool == [op |-> "init"]

\* The lowest handle id the drivers have not handed out yet in hs, 0 when
\* the bound is exhausted.
FreshHandle(hs) ==
    IF \E h \in 1..MaxHandles : hs[h] = "free"
    THEN CHOOSE h \in 1..MaxHandles :
            hs[h] = "free" /\ \A k \in 1..(h - 1) : hs[k] # "free"
    ELSE 0

\* DatabaseAdapter.is_connected.
is_connected(a) ==
    a.connected

\* ------------------------------------------------------- SQL statements
\* A statement is a sequence of characters; these are the ones executed.
SqlSelect == <<"S", "E", "L", "E", "C", "T", " ", "1">>
SqlSelectLower == <<" ", "s", "e", "l", "e", "c", "t", " ", "1">>
\* WITH c AS (...) followed by a SELECT or by a DELETE.
SqlWith == <<"W", "I", "T", "H", " ", "c">>
SqlShow == <<"S", "H", "O", "W", " ", "t">>
SqlDelete == <<"D", "E", "L", "E", "T", "E", " ", "t">>

Statements ==
    {SqlSelect, SqlSelectLower, SqlWith, SqlShow, SqlDelete}

\* The statements the manager's queries run.
ManagerStatements ==
    {SqlSelect, SqlDelete}

\* str.upper() on one character.
UpperChar(c) ==
    CASE c = "s" -> "S" [] c = "e" -> "E" [] c = "l" -> "L"
      [] c = "c" -> "C" [] c = "t" -> "T" [] OTHER -> c

\* str.upper().
Upper(s) ==
    [i \in 1..Len(s) |-> UpperChar(s[i])]

RECURSIVE LStrip(_)
\* Leading whitespace removed.
LStrip(s) ==
    IF s # <<>> /\ Head(s) = " " THEN LStrip(Tail(s)) ELSE s

RECURSIVE RStrip(_)
\* Trailing whitespace removed.
RStrip(s) ==
    IF s # <<>> /\ s[Len(s)] = " " THEN RStrip(SubSeq(s, 1, Len(s) - 1)) ELSE s

\* str.strip().
Strip(s) ==
    RStrip(LStrip(s))

\* str.startswith(prefix).
StartsWith(s, prefix) ==
    /\ Len(prefix) <= Len(s)
    /\ SubSeq(s, 1, Len(prefix)) = prefix

KwSelect == <<"S", "E", "L", "E", "C", "T">>
KwWith == <<"W", "I", "T", "H">>
KwShow == <<"S", "H", "O", "W">>
KwDescribe == <<"D", "E", "S", "C", "R", "I", "B", "E">>
KwExplain == <<"E", "X", "P", "L", "A", "I", "N">>
KwPragma == <<"P", "R", "A", "G", "M", "A">>
KwExec == <<"E", "X", "E", "C">>
KwSp == <<"S", "P", "_">>

\* Each engine's row-producing keywords (the is_select tests).
SelectKeywords(eng) ==
    CASE eng = "mysql" -> {KwSelect, KwShow, KwDescribe, KwExplain}
      [] eng = "postgres" -> {KwSelect, KwWith, KwShow, KwExplain}
      [] eng = "mssql" -> {KwSelect, KwExec, KwSp, KwWith}
      [] eng = "dm8" -> {KwSelect, KwWith, KwShow, KwDescribe, KwExplain}
      [] eng = "sqlite" -> {KwSelect, KwPragma, KwExplain}

\* is_select: sql.strip().upper() starts with one of the engine's keywords.
is_select(eng, sql) ==
    LET sql_upper == Upper(Strip(sql))
    IN  \E kw \in SelectKeywords(eng) : StartsWith(sql_upper, kw)

\* Adapters that also require cursor.description before taking the row branch.
NeedsDescription == {"postgres", "sqlite"}

\* ------------------------------------------------------------- adapters
\* A disconnect() that lets what close() raises escape, before the handle and
\* the flag are cleared.
Adapter_disconnect_no_swallow(a, hs, closeFails) ==
    IF a.conn # 0 /\ closeFails
    THEN [a |-> a, hs |-> [hs EXCEPT ![a.conn] = "closed"],
          raised |-> "Other", log |-> <<"native.close", "close raised">>]
    ELSE [a |-> [a EXCEPT !.conn = 0, !.connected = FALSE],
          hs |-> IF a.conn # 0 THEN [hs EXCEPT ![a.conn] = "closed"] ELSE hs,
          raised |-> "none",
          log |-> IF a.conn = 0 THEN <<>> ELSE <<"native.close">>]

\* <Engine>Adapter.disconnect: close the handle if one is held, swallowing
\* what close() raises, then clear the handle and the flag.  A handle is
\* "closed" once close() has been called on it; the log tells whether that
\* call raised.
Adapter_disconnect(a, hs, closeFails) ==
    [a |-> [a EXCEPT !.conn = 0, !.connected = FALSE],
     hs |-> IF a.conn # 0 THEN [hs EXCEPT ![a.conn] = "closed"] ELSE hs,
     raised |-> "none",
     log |-> IF a.conn = 0 THEN <<>>
             ELSE IF closeFails THEN <<"native.close", "close raised">>
             ELSE <<"native.close">>]

\* Whether connect()'s except clause catches an error of class kind.
ConnectCatches(eng, kind) ==
    eng \in ConnectCatchesAll \/ kind = "driver"

\* What connect() looks up before the handshake, with what it finds:
\* os.path.exists(db_path) for a SQLite path other than ":memory:"
\* (sqlite.py:43), find_dm_jdbc_driver() for DM8 (dm8.py:78); nothing on the
\* other adapters.
PreCheckLog(eng, dbname, env) ==
    IF eng \in HasPreCheck /\ (eng = "sqlite" => dbname # ":memory:")
    THEN <<IF env.present THEN "precheck.found" ELSE "precheck.missing">>
    ELSE <<>>

\* A pre-check that only the DM8 adapter makes.
PreCheckFails_dm8_only(eng, dbname, env) ==
    /\ eng = "dm8"
    /\ ~env.present

\* The pre-check of connect() fails: the SQLite path is not ":memory:" and is
\* absent (sqlite.py:43-44), or no DM8 JDBC jar is found (dm8.py:78-83).
PreCheckFails(eng, dbname, env) ==
    /\ eng \in HasPreCheck
    /\ eng = "sqlite" => dbname # ":memory:"
    /\ ~env.present

\* The adapter after connect()'s except clause ran or was bypassed.
AfterConnectError(a, eng, kind) ==
    IF ConnectCatches(eng, kind)
    THEN [a EXCEPT !.connected = FALSE, !.last = "failed"]
    ELSE [a EXCEPT !.last = "failed"]

\* What connect() raises for an error of class kind raised in its body.
ConnectRaises(eng, kind) ==
    IF ConnectCatches(eng, kind) THEN "ConnectionError" ELSE "Other"

\* <Engine>Adapter.connect.
Adapter_connect(a, dbname, env, hs) ==
    LET eng == a.db_type
        h == FreshHandle(hs)
        opened == [a EXCEPT !.conn = h, !.connected = TRUE]
        pre == PreCheckLog(eng, dbname, env)
    IN  IF PreCheckFails(eng, dbname, env)
        THEN [a |-> AfterConnectError(a, eng, "other"), hs |-> hs,
              raised |-> ConnectRaises(eng, "other"), log |-> pre]
        ELSE IF env.failAt = "handshake"
        THEN [a |-> AfterConnectError(a, eng, env.err), hs |-> hs,
              raised |-> ConnectRaises(eng, env.err),
              log |-> pre \o <<"native.connect">>]
        ELSE IF env.failAt = "verify"
        THEN [a |-> AfterConnectError(opened, eng, env.err),
              hs |-> [hs EXCEPT ![h] = "open"],
              raised |-> ConnectRaises(eng, env.err),
              log |-> pre \o <<"native.connect", "native.verify">>]
        ELSE [a |-> [opened EXCEPT !.last = "ok"],
              hs |-> [hs EXCEPT ![h] = "open"],
              raised |-> "none",
              log |-> pre \o <<"native.connect", "native.verify">>]

\* connect() gets as far as opening a native handle.
OpensHandle(a, dbname, env) ==
    /\ ~PreCheckFails(a.db_type, dbname, env)
    /\ env.failAt # "handshake"

\* What the driver does during one execute_query(): the call at which it
\* raises, the class of what it raises, whether the cursor has a description,
\* and whether rollback() raises.
QueryEnvs ==
    {q \in [failAt : {"none", "cursor", "execute", "fetch", "commit"},
            err : {"driver", "other"},
            desc : BOOLEAN,
            rollbackFails : BOOLEAN] :
        /\ q.failAt = "none" => q.err = "driver"
        /\ q.rollbackFails => q.failAt # "none" /\ q.err = "driver"}

\* The driver behaviours the manager's queries are run against.
ManagerQueryEnvs ==
    {q \in QueryEnvs : q.failAt \in {"none", "execute"}}

\* Whether the cursor can have a description (a result set) after executing
\* sql: SELECT 1 and SHOW always produce one, DELETE never does, and a WITH
\* statement does when its body is a SELECT and does not when it is a DELETE.
DescOutcomes(sql) ==
    IF sql = SqlWith THEN BOOLEAN
    ELSE IF sql = SqlDelete THEN {FALSE}
    ELSE {TRUE}

\* What the driver does during one catalog query: the call at which it raises,
\* the class of what it raises, and whether the catalog returns any row.
CatalogEnvs ==
    {c \in [failAt : {"none", "cursor", "execute", "fetch"},
            err : {"driver", "other"},
            rows : BOOLEAN] :
        /\ c.failAt = "none" => c.err = "driver"
        /\ c.failAt # "none" => ~c.rows}

\* The driver behaviours the manager's catalog queries are run against.
ManagerCatalogEnvs ==
    {c \in CatalogEnvs : c.failAt \in {"none", "execute"}}

\* Whether the except clause of execute_query/list_tables/describe_table
\* catches an error of class kind.
QueryCatches(eng, kind) ==
    eng \in QueryCatchesAll \/ kind = "driver"

\* execute_query takes the row branch: is_select, and for the adapters that
\* test it, a cursor description.
TakesRows(eng, sql, q) ==
    /\ is_select(eng, sql)
    /\ eng \in NeedsDescription => q.desc

\* An execute_query guard that tests the handle only.
NotConnected_handle_only(a) ==
    a.conn = 0

\* execute_query's guard: `not self._connected or not self._connection`.
NotConnected(a) ==
    ~a.connected \/ a.conn = 0

\* The native calls of execute_query's try block, in order.
QueryPath(eng, sql, q) ==
    IF TakesRows(eng, sql, q)
    THEN <<"native.cursor", "native.execute", "native.fetchall">>
    ELSE <<"native.cursor", "native.execute", "native.commit">>

\* The native call a failAt value names.
NativeCall(failAt) ==
    CASE failAt = "cursor" -> "native.cursor"
      [] failAt = "execute" -> "native.execute"
      [] failAt = "fetch" -> "native.fetchall"
      [] failAt = "commit" -> "native.commit"
      [] OTHER -> "none"

\* Position in path of the call that raises, 0 when none does.
FailIndex(path, failAt) ==
    IF \E k \in 1..Len(path) : path[k] = NativeCall(failAt)
    THEN CHOOSE k \in 1..Len(path) : path[k] = NativeCall(failAt)
    ELSE 0

\* A row result that also fills in affected_rows.
SelectResult_with_affected(i) ==
    [Result("execute_query", i, "none", TRUE, "none", "rows returned", "rows")
        EXCEPT !.columns = "set", !.rows = "set", !.affected_rows = "set"]

\* QueryResult(success=True, columns=..., rows=..., row_count=..., message=...)
\* of the row branch.
SelectResult(i) ==
    [Result("execute_query", i, "none", TRUE, "none", "rows returned", "rows")
        EXCEPT !.columns = "set", !.rows = "set"]

\* QueryResult(success=True, affected_rows=..., message=...) of the other
\* branch.
EffectResult(i) ==
    [Result("execute_query", i, "none", TRUE, "none", "rows affected",
            "affected")
        EXCEPT !.affected_rows = "set"]

\* The calls made up to and including call k of path, which raised.
RaisedAt(path, k) ==
    SubSeq(path, 1, k) \o <<"raised">>

\* The except clause of execute_query: PostgresAdapter rolls back first
\* (postgres.py:142), then every adapter returns the failure as a result.
ExecuteExcept(a, i, q, done) ==
    IF a.db_type = "postgres"
    THEN [res |-> IF q.rollbackFails
                  THEN Result("execute_query", i, "DriverError", FALSE,
                              "native", "", "none")
                  ELSE Result("execute_query", i, "none", FALSE, "native",
                              "SQL failed", "none"),
          log |-> done \o <<"native.rollback">>]
    ELSE [res |-> Result("execute_query", i, "none", FALSE, "native",
                         "SQL failed", "none"),
          log |-> done]

\* The outcome r of a try block that ran statement sql against driver
\* behaviour q.
Ran(r, sql, q) ==
    [r EXCEPT !.sql = sql, !.desc = q.desc]

\* <Engine>Adapter.execute_query on adapter a (object i).
Adapter_execute_query(a, i, sql, q) ==
    LET eng == a.db_type
        path == QueryPath(eng, sql, q)
        k == FailIndex(path, q.failAt)
    IN  IF NotConnected(a)
        THEN [res |-> Result("execute_query", i, "none", FALSE,
                             "Not connected to database", "connect first",
                             "none"),
              log |-> <<>>]
        ELSE IF k = 0
        THEN [res |-> Ran(IF TakesRows(eng, sql, q)
                          THEN SelectResult(i) ELSE EffectResult(i), sql, q),
              log |-> path]
        ELSE IF QueryCatches(eng, q.err)
        THEN [res |-> Ran(ExecuteExcept(a, i, q, RaisedAt(path, k)).res, sql, q),
              log |-> ExecuteExcept(a, i, q, RaisedAt(path, k)).log]
        ELSE [res |-> Ran(Result("execute_query", i, "Other", FALSE, "native",
                                 "", "none"), sql, q),
              log |-> RaisedAt(path, k)]

\* The native calls of a catalog query, in order.
CatalogPath == <<"native.cursor", "native.execute", "native.fetchall">>

\* <Engine>Adapter.list_tables / describe_table on adapter a (object i): the
\* guard tests the connected flag only, then one catalog query in a try block.
Adapter_catalog(op, a, i, c) ==
    LET eng == a.db_type
        k == FailIndex(CatalogPath, c.failAt)
    IN  IF ~a.connected
        THEN [res |-> Result(op, i, "none", TRUE, "none", "", "empty"),
              log |-> <<>>]
        ELSE IF a.conn = 0
        THEN [res |-> IF QueryCatches(eng, "other")
                      THEN Result(op, i, "none", TRUE, "none", "", "empty")
                      ELSE Result(op, i, "Other", FALSE, "native", "", "none"),
              log |-> <<>>]
        ELSE IF k = 0
        THEN [res |-> Result(op, i, "none", TRUE, "none", "",
                             IF c.rows THEN "items" ELSE "empty"),
              log |-> CatalogPath]
        ELSE [res |-> IF QueryCatches(eng, c.err)
                      THEN Result(op, i, "none", TRUE, "none", "", "empty")
                      ELSE Result(op, i, "Other", FALSE, "native", "", "none"),
              log |-> RaisedAt(CatalogPath, k)]

\* -------------------------------------------------------------- factory
\* The list the factory's ValueError names (factory.py:43).
SupportedList == <<"mysql", "postgres", "mssql", "dm8", "sqlite">>

\* get_adapter(dbtype): the adapter class's constructor, or what is raised.
get_adapter(tag) ==
    LET eng == CanonicalOf(Lower(tag))
    IN  IF eng = ""
        THEN [raised |-> "ValueError", eng |-> "", supported |-> SupportedList]
        ELSE IF eng # "sqlite" /\ eng \notin drivers
        THEN [raised |-> "ImportError", eng |-> eng, supported |-> <<>>]
        ELSE [raised |-> "none", eng |-> eng, supported |-> <<>>]

\* -------------------------------------------------------------- manager
\* DatabaseManager.is_connected.
manager_is_connected ==
    mgrAdapter # 0 /\ is_connected(adapters[mgrAdapter])

\* The native handle of the adapter the manager holds, 0 when there is none.
HeldHandle ==
    IF mgrAdapter = 0 THEN 0 ELSE adapters[mgrAdapter].conn

\* A connect() that never tears down the adapter it holds.
NeedsTeardown_never(held, ads) ==
    FALSE

\* connect()'s test for tearing down the held adapter first
\* (connection_manager.py:53).
NeedsTeardown(held, ads) ==
    held # 0 /\ is_connected(ads[held])

\* The adapter slot after adapter.connect() raised: the assignment of line 57
\* has already happened and nothing undoes it.
SlotAfterFailedConnect(new) ==
    new

\* DatabaseManager.config after disconnect(): the method assigns adapter and
\* connection_info only (connection_manager.py:94-95).
ConfigAfterDisconnect(cfg) ==
    cfg

\* The manager after the teardown step of connect() (lines 53-54), or as it
\* was when no teardown is due.
Teardown(closeFails) ==
    LET d == Adapter_disconnect(adapters[mgrAdapter], handles, closeFails)
    IN  IF NeedsTeardown(mgrAdapter, adapters)
        THEN [ads |-> [adapters EXCEPT ![mgrAdapter] = d.a], hs |-> d.hs,
              held |-> 0, info |-> "None",
              cfg |-> ConfigAfterDisconnect(mgrConfig),
              log |-> <<"manager.disconnect", "adapter.disconnect">> \o d.log]
        ELSE [ads |-> adapters, hs |-> handles, held |-> mgrAdapter,
              info |-> mgrInfo, cfg |-> mgrConfig, log |-> <<>>]

\* DatabaseManager.connect(dbtype, host, port, username, password, dbname).
DatabaseManager_connect(tag, port, password, dbname, env, closeFails) ==
    \E t \in {Teardown(closeFails)}, f \in {get_adapter(tag)} :
        /\ drivers' = drivers
        /\ IF f.raised # "none"
           THEN /\ adapters' = t.ads
                /\ handles' = t.hs
                /\ mgrAdapter' = t.held
                /\ mgrInfo' = t.info
                /\ mgrConfig' = t.cfg
                /\ res' = Result("connect", 0, f.raised, FALSE, "unsupported",
                                 "", "none")
                /\ log' = t.log \o <<"get_adapter">>
           ELSE /\ Len(adapters) < MaxAdapters
                /\ OpensHandle(NewAdapter(f.eng), dbname, env)
                      => FreshHandle(t.hs) # 0
                /\ \E c \in {Adapter_connect(NewAdapter(f.eng), dbname, env, t.hs)} :
                    LET new == Len(t.ads) + 1
                        ok == c.raised = "none"
                    IN  /\ adapters' = Append(t.ads, c.a)
                        /\ handles' = c.hs
                        /\ mgrAdapter' = IF ok THEN new
                                         ELSE SlotAfterFailedConnect(new)
                        /\ mgrInfo' = IF ok THEN "info" ELSE t.info
                        /\ mgrConfig' = IF ok
                                        THEN DatabaseConfig(tag, port, password,
                                                            dbname)
                                        ELSE t.cfg
                        /\ res' = Result("connect", new, c.raised, ok,
                                         IF ok THEN "none" ELSE "native", "",
                                         IF ok THEN "info" ELSE "none")
                        /\ log' = t.log \o <<"get_adapter", "adapter.connect">>
                                        \o c.log

\* DatabaseManager.disconnect().
DatabaseManager_disconnect(closeFails) ==
    /\ drivers' = drivers
    /\ IF mgrAdapter # 0
       THEN \E d \in {Adapter_disconnect(adapters[mgrAdapter], handles, closeFails)} :
                /\ adapters' = [adapters EXCEPT ![mgrAdapter] = d.a]
                /\ handles' = d.hs
                /\ log' = <<"adapter.disconnect">> \o d.log
       ELSE /\ UNCHANGED <<adapters, handles>>
            /\ log' = <<>>
    /\ mgrAdapter' = 0
    /\ mgrInfo' = "None"
    /\ mgrConfig' = ConfigAfterDisconnect(mgrConfig)
    /\ res' = Result("disconnect", mgrAdapter, "none", TRUE, "none", "", "none")

\* A manager that answers with the adapters' not-connected pair.
NoAdapterResult_not_connected(op) ==
    IF op = "execute_query"
    THEN Result("execute_query", 0, "none", FALSE,
                "Not connected to database", "connect first", "none")
    ELSE Result(op, 0, "none", TRUE, "none", "", "empty")

\* What the manager's execute_query / list_tables / describe_table return
\* when no adapter is held (connection_manager.py:109-114, 119-120, 125-126).
NoAdapterResult(op) ==
    IF op = "execute_query"
    THEN Result("execute_query", 0, "none", FALSE,
                "No database connection", "use connect_database", "none")
    ELSE Result(op, 0, "none", TRUE, "none", "", "empty")

\* A manager that drops its adapter when a statement fails.
DatabaseManager_execute_query_drop(sql, q) ==
    /\ IF mgrAdapter = 0
       THEN /\ res' = NoAdapterResult("execute_query")
            /\ log' = <<>>
       ELSE \E r \in {Adapter_execute_query(adapters[mgrAdapter], mgrAdapter, sql, q)} :
                /\ res' = r.res
                /\ log' = r.log
    /\ mgrAdapter' = IF res'.success THEN mgrAdapter ELSE 0
    /\ mgrInfo' = IF res'.success THEN mgrInfo ELSE "None"
    /\ UNCHANGED <<drivers, adapters, handles, mgrConfig>>

\* DatabaseManager.execute_query(sql).
DatabaseManager_execute_query(sql, q) ==
    /\ IF mgrAdapter = 0
       THEN /\ res' = NoAdapterResult("execute_query")
            /\ log' = <<>>
       ELSE \E r \in {Adapter_execute_query(adapters[mgrAdapter], mgrAdapter, sql, q)} :
                /\ res' = r.res
                /\ log' = r.log
    /\ UNCHANGED <<drivers, adapters, handles, mgrAdapter, mgrConfig, mgrInfo>>

\* DatabaseManager.list_tables(schema) / describe_table(table_name, schema).
DatabaseManager_catalog(op, c) ==
    /\ IF mgrAdapter = 0
       THEN /\ res' = NoAdapterResult(op)
            /\ log' = <<>>
       ELSE \E r \in {Adapter_catalog(op, adapters[mgrAdapter], mgrAdapter, c)} :
                /\ res' = r.res
                /\ log' = r.log
    /\ UNCHANGED <<drivers, adapters, handles, mgrAdapter, mgrConfig, mgrInfo>>

DatabaseManager_list_tables(c) ==
    DatabaseManager_catalog("list_tables", c)

DatabaseManager_describe_table(c) ==
    DatabaseManager_catalog("describe_table", c)

\* ------------------------------------------------- the manager's machine
Init ==
    /\ drivers \in DriverSets
    /\ adapters = <<>>
    /\ handles = [h \in 1..MaxHandles |-> "free"]
    /\ mgrAdapter = 0
    /\ mgrConfig = NoConfig
    /\ mgrInfo = "None"
    /\ res = NoResult
    /\ log = <<>>
    /\ tool = NoTool

\* The environments that make a difference to connect(tag, dbname): one when
\* the factory raises, and an absent artifact only where connect() looks for
\* one.
EnvsFor(tag, dbname) ==
    IF get_adapter(tag).raised # "none"
    THEN {CHOOSE e \in ConnectEnvs : e.failAt = "none" /\ e.present}
    ELSE {e \in ConnectEnvs :
            ~e.present =>
                /\ get_adapter(tag).eng \in HasPreCheck
                /\ dbname # ":memory:"}

Connect ==
    \E tag \in ConnectTags, dbname \in {":memory:", "app"} :
        \E env \in EnvsFor(tag, dbname),
           closeFails \in CloseOutcomes(HeldHandle) :
            /\ dbname \in DbNames(tag)
            /\ DatabaseManager_connect(tag, 0, "pw1", dbname, env, closeFails)
            /\ UNCHANGED tool

Disconnect ==
    \E closeFails \in CloseOutcomes(HeldHandle) :
        /\ DatabaseManager_disconnect(closeFails)
        /\ UNCHANGED tool

\* rollback() is called by PostgresAdapter only: whether it raises is drawn
\* for that adapter alone.
RollbackOutcomes(a) ==
    IF a.db_type = "postgres" THEN BOOLEAN ELSE {FALSE}

ExecuteQuery ==
    \E sql \in ManagerStatements, q \in ManagerQueryEnvs :
        /\ q.desc \in DescOutcomes(sql)
        /\ mgrAdapter # 0 => q.rollbackFails \in RollbackOutcomes(adapters[mgrAdapter])
        /\ DatabaseManager_execute_query(sql, q)
        /\ UNCHANGED tool

ListTables ==
    \E c \in ManagerCatalogEnvs :
        /\ DatabaseManager_list_tables(c)
        /\ UNCHANGED tool

DescribeTable ==
    \E c \in ManagerCatalogEnvs :
        /\ DatabaseManager_describe_table(c)
        /\ UNCHANGED tool

Next ==
    \/ Connect
    \/ Disconnect
    \/ ExecuteQuery
    \/ ListTables
    \/ DescribeTable

Spec == Init /\ [][Next]_vars

\* ------------------------------------------- one adapter driven directly
\* An adapter object obtained from the factory and called without the manager.
AdapterInit ==
    /\ drivers \in DriverSets
    /\ adapters = <<>>
    /\ handles = [h \in 1..MaxHandles |-> "free"]
    /\ mgrAdapter = 0
    /\ mgrConfig = NoConfig
    /\ mgrInfo = "None"
    /\ res = NoResult
    /\ log = <<>>
    /\ tool = NoTool

\* get_adapter(tag) called by the driving code, which keeps the adapter it
\* returns.
GetAdapter(tag) ==
    /\ \E f \in {get_adapter(tag)} :
        LET ok == f.raised = "none"
        IN  /\ adapters' = IF ok THEN Append(adapters, NewAdapter(f.eng))
                           ELSE adapters
            /\ res' = [Result("get_adapter",
                              IF ok THEN Len(adapters) + 1 ELSE 0, f.raised,
                              ok,
                              IF ok THEN "none"
                              ELSE IF f.raised = "ValueError" THEN "unsupported"
                              ELSE "not installed",
                              "", IF ok THEN "adapter" ELSE "none")
                          EXCEPT !.tag = tag, !.supported = f.supported]
            /\ log' = <<>>
    /\ UNCHANGED <<drivers, handles, mgrAdapter, mgrConfig, mgrInfo, tool>>

AdapterConnect(i, dbname, env) ==
    /\ OpensHandle(adapters[i], dbname, env) => FreshHandle(handles) # 0
    /\ \E c \in {Adapter_connect(adapters[i], dbname, env, handles)} :
        /\ adapters' = [adapters EXCEPT ![i] = c.a]
        /\ handles' = c.hs
        /\ res' = Result("connect", i, c.raised, c.raised = "none",
                         IF c.raised = "none" THEN "none" ELSE "native",
                         "", IF c.raised = "none" THEN "info" ELSE "none")
        /\ log' = c.log
    /\ UNCHANGED <<drivers, mgrAdapter, mgrConfig, mgrInfo, tool>>

AdapterDisconnect(i, closeFails) ==
    /\ \E d \in {Adapter_disconnect(adapters[i], handles, closeFails)} :
        /\ adapters' = [adapters EXCEPT ![i] = d.a]
        /\ handles' = d.hs
        /\ res' = Result("disconnect", i, d.raised, TRUE, "none", "", "none")
        /\ log' = d.log
    /\ UNCHANGED <<drivers, mgrAdapter, mgrConfig, mgrInfo, tool>>

AdapterExecuteQuery(i, sql, q) ==
    /\ \E r \in {Adapter_execute_query(adapters[i], i, sql, q)} :
        /\ res' = r.res
        /\ log' = r.log
    /\ UNCHANGED <<drivers, adapters, handles, mgrAdapter, mgrConfig, mgrInfo,
                   tool>>

AdapterCatalog(op, i, c) ==
    /\ \E r \in {Adapter_catalog(op, adapters[i], i, c)} :
        /\ res' = r.res
        /\ log' = r.log
    /\ UNCHANGED <<drivers, adapters, handles, mgrAdapter, mgrConfig, mgrInfo,
                   tool>>

AGetAdapter ==
    \E tag \in Tags :
        /\ Len(adapters) = 0
        /\ GetAdapter(tag)

AConnect ==
    \E i \in 1..Len(adapters), env \in ConnectEnvs :
        \E dbname \in DbNames(adapters[i].db_type) :
            AdapterConnect(i, dbname, env)

ADisconnect ==
    \E i \in 1..Len(adapters) :
        \E closeFails \in CloseOutcomes(adapters[i].conn) :
            AdapterDisconnect(i, closeFails)

AExecuteQuery ==
    \E i \in 1..Len(adapters), sql \in Statements, q \in QueryEnvs :
        /\ q.desc \in DescOutcomes(sql)
        /\ q.rollbackFails \in RollbackOutcomes(adapters[i])
        /\ AdapterExecuteQuery(i, sql, q)

AListTables ==
    \E i \in 1..Len(adapters), c \in CatalogEnvs :
        AdapterCatalog("list_tables", i, c)

ADescribeTable ==
    \E i \in 1..Len(adapters), c \in CatalogEnvs :
        AdapterCatalog("describe_table", i, c)

AdapterNext ==
    \/ AGetAdapter
    \/ AConnect
    \/ ADisconnect
    \/ AExecuteQuery
    \/ AListTables
    \/ ADescribeTable

AdapterSpec == AdapterInit /\ [][AdapterNext]_vars

\* ------------------------------------------------------ server.py tools
\* SUPPORTED_DBTYPES (config.py:62).
SUPPORTED_DBTYPES == <<"mysql", "postgres", "mssql", "dm8", "sqlite">>

\* A membership test that lets every dbtype through.
SupportedDbtype_any(dbtype) ==
    TRUE

\* `dbtype in SUPPORTED_DBTYPES` (server.py:86).
SupportedDbtype(dbtype) ==
    \E k \in 1..Len(SUPPORTED_DBTYPES) : SUPPORTED_DBTYPES[k] = dbtype

\* A substitution that overrides the port the caller gave.
DefaultPort_always(dbtype, port) ==
    CASE dbtype = "mysql" -> 3306
      [] dbtype = "postgres" -> 5432
      [] dbtype = "mssql" -> 1433
      [] dbtype = "dm8" -> 5236
      [] OTHER -> 0

\* The port connect_database passes on: the default_ports entry when port is
\* 0, the given port otherwise (server.py:94-102).
DefaultPort(dbtype, port) ==
    IF port = 0
    THEN CASE dbtype = "mysql" -> 3306
           [] dbtype = "postgres" -> 5432
           [] dbtype = "mssql" -> 1433
           [] dbtype = "dm8" -> 5236
           [] dbtype = "sqlite" -> 0
           [] OTHER -> 0
    ELSE port

\* dbtype arguments of connect_database: the canonical tags, a mixed-case
\* spelling, a synonym only the factory knows and an unknown engine.
ToolTags == Engines \cup {"MySQL", "postgresql", "oracle"}

\* port arguments of connect_database: the "use the default" value and an
\* explicit port.
ToolPorts == {0, 3307}

\* limit and offset arguments of the list_tables tool: a page inside the
\* result, a page that runs past its end, an empty page, and requests with a
\* negative limit, a negative offset and an offset past the end.
Pages ==
    {[limit |-> MaxItems + 1, offset |-> 0],
     [limit |-> 2, offset |-> MaxItems - 1],
     [limit |-> 1, offset |-> 1],
     [limit |-> 0, offset |-> 0],
     [limit |-> -1, offset |-> 0],
     [limit |-> 2, offset |-> -1],
     [limit |-> 2, offset |-> MaxItems + 1]}

\* How many items a catalog query returned under driver behaviour c.
ItemCounts(c) ==
    IF c.rows THEN {1, MaxItems} ELSE {0}

\* What the environment does during a connect made through the tool: success,
\* a missing SQLite file or DM8 jar, a refused handshake, and a verification
\* query that fails inside or outside the driver's error class.
ToolConnectEnvs ==
    {e \in ConnectEnvs : e.failAt = "handshake" => e.err = "driver"}

\* The adapter's full result of n items, in the adapter's order.
FullResult(n) ==
    [k \in 1..n |-> k]

\* The early return of execute_sql / list_tables / describe_table when
\* db_manager.is_connected is false.
NotConnectedResponse(op) ==
    [ToolResponse(op) EXCEPT !.error = "Database not connected",
                             !.message = "Please connect to a database",
                             !.suggestions = "use connect_database"]

\* A tool without the except clause: what the manager raised escapes.
UnexpectedResponse_reraise(op, message) ==
    [ToolResponse(op) EXCEPT !.called = TRUE, !.raised = "Other"]

\* The response of a tool's `except Exception` clause.
UnexpectedResponse(op, message) ==
    [ToolResponse(op) EXCEPT !.called = TRUE, !.error = "str(e)",
                             !.message = message]

\* connect_database(dbtype, host, port, username, password, dbname).
connect_database(dbtype, port, password, dbname, env, closeFails) ==
    LET lowered == Lower(dbtype)
        given == [ToolResponse("connect_database")
                    EXCEPT !.arg_dbtype = dbtype, !.arg_port = port]
    IN  IF ~SupportedDbtype(lowered)
        THEN /\ tool' = [given EXCEPT !.error = "Unsupported database type",
                                      !.supported_types = SUPPORTED_DBTYPES]
             /\ UNCHANGED <<drivers, adapters, handles, mgrAdapter, mgrConfig,
                            mgrInfo, res, log>>
        ELSE /\ DatabaseManager_connect(lowered, DefaultPort(lowered, port),
                                        password, dbname, env, closeFails)
             /\ LET passed == [given EXCEPT
                                !.called = TRUE,
                                !.passed_dbtype = lowered,
                                !.passed_port = DefaultPort(lowered, port)]
                IN  tool' = IF res'.raised = "none"
                            THEN [passed EXCEPT
                                    !.success = TRUE,
                                    !.message = "Successfully connected",
                                    !.connection_info = mgrInfo']
                            ELSE [passed EXCEPT
                                    !.error = "str(e)",
                                    !.message = "Database connection failed",
                                    !.suggestions =
                                        IF lowered = "sqlite" THEN "file"
                                        ELSE "network"]

\* execute_sql(query, timeout).
execute_sql(sql, q) ==
    IF ~manager_is_connected
    THEN /\ tool' = NotConnectedResponse("execute_sql")
         /\ UNCHANGED <<drivers, adapters, handles, mgrAdapter, mgrConfig,
                        mgrInfo, res, log>>
    ELSE /\ DatabaseManager_execute_query(sql, q)
         /\ tool' = IF res'.raised = "none"
                    THEN [ToolResponse("execute_sql") EXCEPT
                            !.called = TRUE,
                            !.success = res'.success,
                            !.columns = res'.columns,
                            !.rows = res'.rows,
                            !.affected_rows = res'.affected_rows,
                            !.message = res'.message,
                            !.error = res'.error]
                    ELSE UnexpectedResponse("execute_sql",
                                            "An unexpected error occurred")

\* Python's max and min of two integers.
Max2(a, b) ==
    IF a >= b THEN a ELSE b

Min2(a, b) ==
    IF a <= b THEN a ELSE b

\* A slice bound i applied to a list of length n: a negative bound counts
\* from the end, and every bound is clipped to 0..n.
SliceIndex(i, n) ==
    IF i < 0 THEN Max2(n + i, 0) ELSE Min2(i, n)

\* The list slice s[a:b].
Slice(s, a, b) ==
    LET lo == SliceIndex(a, Len(s))
        hi == SliceIndex(b, Len(s))
    IN  IF lo < hi THEN SubSeq(s, lo + 1, hi) ELSE <<>>

\* An end position that forgets the start.
PageEnd_no_start(total_count, start, limit) ==
    Min2(total_count, limit)

\* end = min(total_count, start + limit) (server.py:226).
PageEnd(total_count, start, limit) ==
    Min2(total_count, start + limit)

\* The success response of the list_tables tool for the manager's result
\* tables (server.py:223-245).
Paginate(tables, limit, offset) ==
    LET total_count == Len(tables)
        start == Max2(0, offset)
        end == PageEnd(total_count, start, limit)
        paged_tables == Slice(tables, start, end)
    IN  [ToolResponse("list_tables") EXCEPT
            !.called = TRUE,
            !.success = TRUE,
            !.arg_limit = limit,
            !.arg_offset = offset,
            !.full = tables,
            !.tables = paged_tables,
            !.table_count = Len(paged_tables),
            !.total_count = total_count,
            !.offset = start,
            !.limit = limit,
            !.message = "Found tables"]

\* list_tables(schema, limit, offset); n is the number of tables the catalog
\* query returns when it returns any.
list_tables(c, n, limit, offset) ==
    IF ~manager_is_connected
    THEN /\ tool' = NotConnectedResponse("list_tables")
         /\ UNCHANGED <<drivers, adapters, handles, mgrAdapter, mgrConfig,
                        mgrInfo, res, log>>
    ELSE /\ DatabaseManager_list_tables(c)
         /\ tool' = IF res'.raised = "none"
                    THEN Paginate(FullResult(IF res'.payload = "items"
                                             THEN n ELSE 0), limit, offset)
                    ELSE [UnexpectedResponse("list_tables",
                                             "Failed to list tables")
                            EXCEPT !.arg_limit = limit, !.arg_offset = offset]

\* A describe_table that reports an empty column list as a success.
DescribeResponse_empty_ok(columns) ==
    [ToolResponse("describe_table") EXCEPT
        !.called = TRUE,
        !.full = columns,
        !.success = TRUE,
        !.column_count = Len(columns),
        !.message = "Table has columns"]

\* The response of the describe_table tool for the manager's result columns
\* (server.py:282-307).
DescribeResponse(columns) ==
    IF columns = <<>>
    THEN [ToolResponse("describe_table") EXCEPT
            !.called = TRUE,
            !.error = "Table not found or schema unavailable",
            !.message = "Failed to get table schema",
            !.suggestions = "check the table name"]
    ELSE [ToolResponse("describe_table") EXCEPT
            !.called = TRUE,
            !.full = columns,
            !.success = TRUE,
            !.column_count = Len(columns),
            !.message = "Table has columns"]

\* describe_table(table_name, schema); n is the number of columns the catalog
\* query returns when it returns any.
describe_table(c, n) ==
    IF ~manager_is_connected
    THEN /\ tool' = NotConnectedResponse("describe_table")
         /\ UNCHANGED <<drivers, adapters, handles, mgrAdapter, mgrConfig,
                        mgrInfo, res, log>>
    ELSE /\ DatabaseManager_describe_table(c)
         /\ tool' = IF res'.raised = "none"
                    THEN DescribeResponse(FullResult(IF res'.payload = "items"
                                                     THEN n ELSE 0))
                    ELSE UnexpectedResponse("describe_table",
                                            "Error occurred while describing")

\* The response of get_connection_status for a manager whose is_connected,
\* current_db_type and config are as given.
StatusResponse(connected, db_type, cfg) ==
    IF ~connected
    THEN [ToolResponse("get_connection_status") EXCEPT
            !.message = "Not connected to any database"]
    ELSE [ToolResponse("get_connection_status") EXCEPT
            !.connected = TRUE,
            !.db_type = db_type,
            !.config = IF cfg.set THEN to_dict(cfg) ELSE "None",
            !.message = "Connected to database"]

\* DatabaseManager.current_db_type.
current_db_type ==
    IF mgrAdapter # 0 THEN adapters[mgrAdapter].db_type ELSE "None"

\* get_connection_status().
get_connection_status ==
    /\ tool' = StatusResponse(manager_is_connected, current_db_type, mgrConfig)
    /\ UNCHANGED <<drivers, adapters, handles, mgrAdapter, mgrConfig, mgrInfo,
                   res, log>>

\* ---------------------------------------------------- the server's machine
\* Driver modules installed next to the server: a deployment with the MySQL
\* driver only (sqlite3 is built in).
ServerDriverSets == {{"mysql"}}

ServerInit ==
    /\ drivers \in ServerDriverSets
    /\ adapters = <<>>
    /\ handles = [h \in 1..MaxHandles |-> "free"]
    /\ mgrAdapter = 0
    /\ mgrConfig = NoConfig
    /\ mgrInfo = "None"
    /\ res = NoResult
    /\ log = <<>>
    /\ tool = NoTool

\* The process environment at startup: DB_TYPE is unset or names an engine,
\* DB_PORT is unset, a numeral or not a number, and DB_USER, DB_PASSWORD and
\* DB_NAME are unset ("") or set.
Environs ==
    [DB_TYPE : {"unset", "MySQL", "oracle"},
     DB_PORT : {"", "3307", "abc"},
     DB_USER : {"", "u"},
     DB_PASSWORD : {"", "pw1"},
     DB_NAME : {"", "app"}]

\* int(port_str): the number, or ValueError.
ParseInt(port_str) ==
    IF port_str = "3307" THEN [raised |-> "none", value |-> 3307]
    ELSE [raised |-> "ValueError", value |-> 0]

\* default_ports.get(dbtype, 0) of from_env (config.py:27-39).
EnvDefaultPort(dbtype) ==
    CASE dbtype = "mysql" -> 3306
      [] dbtype = "postgres" -> 5432
      [] dbtype = "mssql" -> 1433
      [] dbtype = "dm8" -> 5236
      [] OTHER -> 0

\* DatabaseConfig.from_env(): the config read from environment e, or what
\* reading it raises.
from_env(e) ==
    LET dbtype == Lower(IF e.DB_TYPE = "unset" THEN "sqlite" ELSE e.DB_TYPE)
        parsed == IF e.DB_PORT # "" THEN ParseInt(e.DB_PORT)
                  ELSE [raised |-> "none", value |-> EnvDefaultPort(dbtype)]
    IN  [raised |-> parsed.raised,
         dbtype |-> dbtype, port |-> parsed.value, username |-> e.DB_USER,
         password |-> e.DB_PASSWORD, dbname |-> e.DB_NAME]

\* The test app_lifespan makes before connect_from_config (server.py:39-43).
AutoConnects(config) ==
    /\ config.dbname # "" \/ config.dbtype = "sqlite"
    /\ \/ config.dbtype # "sqlite" /\ config.username # ""
             /\ config.password # ""
       \/ config.dbtype = "sqlite" /\ config.dbname # ""

\* The tools are served between the entry and the exit of app_lifespan.
Running ==
    tool.op \notin {"init", "shutdown"}

\* app_lifespan up to its yield: a new manager, the configuration read from
\* the environment, an automatic connect when the test passes, and whatever
\* either raises swallowed.
app_lifespan_enter(e, env) ==
    LET config == from_env(e)
        attempt == config.raised = "none" /\ AutoConnects(config)
    IN  /\ IF attempt
           THEN DatabaseManager_connect(config.dbtype, config.port,
                                        config.password, config.dbname, env,
                                        FALSE)
           ELSE UNCHANGED <<drivers, adapters, handles, mgrAdapter, mgrConfig,
                            mgrInfo, res, log>>
        /\ tool' = [op |-> "startup", environ |-> e, called |-> attempt,
                    read |-> config.raised]

\* A lifespan whose exit does no cleanup.
app_lifespan_exit_no_cleanup(closeFails) ==
    /\ tool' = [op |-> "shutdown"]
    /\ UNCHANGED <<drivers, adapters, handles, mgrAdapter, mgrConfig, mgrInfo,
                   res, log>>

\* app_lifespan after its yield: `finally: db_manager.disconnect()`.
app_lifespan_exit(closeFails) ==
    /\ DatabaseManager_disconnect(closeFails)
    /\ tool' = [op |-> "shutdown"]

Startup ==
    \E e \in Environs :
        \E env \in IF from_env(e).raised = "none" /\ AutoConnects(from_env(e))
                      /\ get_adapter(from_env(e).dbtype).raised = "none"
                   THEN ToolConnectEnvs ELSE {CHOOSE x \in ToolConnectEnvs : TRUE} :
            /\ tool.op = "init"
            /\ app_lifespan_enter(e, env)

Shutdown ==
    \E closeFails \in CloseOutcomes(HeldHandle) :
        /\ Running
        /\ app_lifespan_exit(closeFails)

ToolConnect ==
    \E dbtype \in ToolTags, port \in ToolPorts :
        \E env \in IF Lower(dbtype) \in drivers \cup {"sqlite"}
                   THEN ToolConnectEnvs ELSE {CHOOSE e \in ToolConnectEnvs : TRUE},
           dbname \in DbNames(Lower(dbtype)),
           password \in Passwords :
            /\ Running
            /\ get_adapter(Lower(dbtype)).raised = "none"
                  => Len(adapters) < MaxToolConnects
            /\ connect_database(dbtype, port, password, dbname, env, FALSE)

ToolExecuteSql ==
    \E sql \in ManagerStatements, q \in ManagerQueryEnvs :
        /\ q.desc \in DescOutcomes(sql)
        /\ Running
        /\ mgrAdapter # 0 => q.rollbackFails \in RollbackOutcomes(adapters[mgrAdapter])
        /\ execute_sql(sql, q)

ToolListTables ==
    \E c \in ManagerCatalogEnvs, page \in Pages :
        \E n \in ItemCounts(c) :
            /\ Running
            /\ list_tables(c, n, page.limit, page.offset)

ToolDescribeTable ==
    \E c \in ManagerCatalogEnvs :
        \E n \in ItemCounts(c) :
            /\ Running
            /\ describe_table(c, n)

ToolStatus ==
    /\ Running
    /\ get_connection_status

ServerNext ==
    \/ Startup
    \/ Shutdown
    \/ ToolConnect
    \/ ToolExecuteSql
    \/ ToolListTables
    \/ ToolDescribeTable
    \/ ToolStatus

ServerSpec == ServerInit /\ [][ServerNext]_vars

\* --------------------------------------------------- cell normalization
\* A cell the driver returns: its Python type and its content.  A bytes
\* content is a sequence of bytes, "xFF" being one that is not valid UTF-8.
RawCells ==
    {[type |-> "Decimal", v |-> <<"1.50">>],
     [type |-> "datetime", v |-> <<"2024-01-02 03:04:05">>],
     [type |-> "date", v |-> <<"2024-01-02">>],
     [type |-> "time", v |-> <<"03:04:05">>],
     [type |-> "timedelta", v |-> <<"1 day">>],
     [type |-> "bytes", v |-> <<"a", "b">>],
     [type |-> "bytes", v |-> <<"a", "xFF">>],
     [type |-> "int", v |-> <<"7">>],
     [type |-> "str", v |-> <<"a">>],
     [type |-> "NoneType", v |-> <<>>]}

\* Cells in one fetched row.
MaxCells == 2

\* The rows fetchall() returns, one at a time.
RawRows ==
    UNION {[1..n -> RawCells] : n \in 1..MaxCells}

\* float(value) of a Decimal.
ToFloat(v) ==
    [type |-> "float", v |-> v]

\* value.isoformat() of a datetime or a date: the ISO-8601 text.
IsoFormat(v) ==
    [type |-> "str", v |-> <<"iso">> \o v]

\* str(value).
ToStr(v) ==
    [type |-> "str", v |-> <<"str">> \o v]

\* value.decode('utf-8', errors='replace'): every invalid byte becomes the
\* replacement character.
Decode(v) ==
    [type |-> "str",
     v |-> [k \in 1..Len(v) |-> IF v[k] = "xFF" THEN "U+FFFD" ELSE v[k]]]

\* The isinstance chain applied to one cell (mysql.py:113-120, the same in
\* postgres.py, mssql.py, dm8.py and sqlite.py); datetime.time is neither a
\* datetime nor a date.
NormalizeCell(value) ==
    IF value.type = "Decimal" THEN ToFloat(value.v)
    ELSE IF value.type \in {"datetime", "date"} THEN IsoFormat(value.v)
    ELSE IF value.type = "timedelta" THEN ToStr(value.v)
    ELSE IF value.type = "bytes" THEN Decode(value.v)
    ELSE value

\* row_dict of one fetched row (mysql.py:109-122).
NormalizeRow(row) ==
    [k \in 1..Len(row) |-> NormalizeCell(row[k])]

RowInit ==
    /\ drivers = Engines
    /\ adapters = <<>>
    /\ handles = [h \in 1..MaxHandles |-> "free"]
    /\ mgrAdapter = 0
    /\ mgrConfig = NoConfig
    /\ mgrInfo = "None"
    /\ res = NoResult
    /\ log = <<>>
    /\ tool = NoTool

\* One pass of the row loop of execute_query's row branch on an eng adapter:
\* a fetched row is normalized cell by cell and appended to the result.
FetchRow ==
    \E eng \in Engines, row \in RawRows :
        /\ res' = [op |-> "fetch_row", eng |-> eng, raw |-> row,
                   row_dict |-> NormalizeRow(row)]
        /\ log' = <<"native.fetchall">>
        /\ UNCHANGED <<drivers, adapters, handles, mgrAdapter, mgrConfig,
                       mgrInfo, tool>>

RowNext ==
    FetchRow

RowSpec == RowInit /\ [][RowNext]_vars

\* ------------------------------------------------------------- properties
\* Adapter objects whose connected flag is set.
ConnectedAdapters ==
    {i \in 1..Len(adapters) : adapters[i].connected}

\* Native handles opened and not closed.
OpenHandles ==
    {h \in 1..MaxHandles : handles[h] = "open"}

\* The calls of connect()'s teardown, and the calls that build the new adapter.
TeardownCalls == {"manager.disconnect", "adapter.disconnect", "native.close"}
BuildCalls == {"get_adapter", "adapter.connect", "native.connect", "native.verify"}

\* In the log of a connect() every teardown call precedes every build call.
TeardownBeforeBuild(l) ==
    \A i, j \in 1..Len(l) :
        l[i] \in TeardownCalls /\ l[j] \in BuildCalls => i < j

\* C1: under one manager at most one adapter is connected in every reachable
\* state, and a connect() made while an adapter is connected completes that
\* adapter's disconnect before the new adapter is constructed or handshakes:
\* after any connect(), failed or not, only the adapter that call built can be
\* connected, and the call's teardown calls all precede its build calls.
C1_OneAdapterConnected ==
    /\ Cardinality(ConnectedAdapters) <= 1
    /\ res.op = "connect" =>
        /\ TeardownBeforeBuild(log)
        /\ \A i \in ConnectedAdapters : i = res.obj
        /\ \A i \in 1..Len(adapters) :
            i # res.obj /\ adapters[i].last = "ok" => adapters[i].conn = 0

\* A connect() that replaced a connected adapter by a new connected one.
C1_Witness ==
    /\ res.op = "connect"
    /\ Len(log) >= 1 /\ log[1] = "manager.disconnect"
    /\ manager_is_connected
    /\ mgrAdapter = 2
    /\ adapters[1].last = "ok" /\ ~adapters[1].connected

\* C2: at most one native handle is open in every reachable state.
C2_AtMostOneOpenHandle ==
    Cardinality(OpenHandles) <= 1

\* C3: after a manager connect() that failed, the failure has propagated and
\* the manager is not connected.
C3_FailedConnectNotConnected ==
    res.op = "connect" /\ res.raised # "none" => ~manager_is_connected

\* C4: after a manager connect() that failed inside the adapter's connect(),
\* the manager's adapter slot is empty.
C4_FailedAdapterNotRetained ==
    res.op = "connect" /\ res.raised \in {"ConnectionError", "Other"}
        => mgrAdapter = 0

\* C5: after manager.disconnect() the adapter and the config are both None.
C5_DisconnectClearsAdapterAndConfig ==
    res.op = "disconnect" => mgrAdapter = 0 /\ mgrConfig = NoConfig

\* C6: between operations an adapter is connected iff its handle is non-null
\* and its most recent connect() succeeded.
C6_ConnectedIffHandleAndLastConnectOk ==
    \A i \in 1..Len(adapters) :
        is_connected(adapters[i])
            <=> (adapters[i].conn # 0 /\ adapters[i].last = "ok")

\* C7: a connect() that fails raises ConnectionError carrying the native error
\* text, and the adapter is not connected afterwards.
C7_FailedConnectRaisesConnectionError ==
    res.op = "connect" /\ res.raised # "none" =>
        /\ res.raised = "ConnectionError"
        /\ res.error = "native"
        /\ ~is_connected(adapters[res.obj])

\* C8: adapter disconnect() raises nothing and leaves handle = null and
\* connected = false, whatever the state it was called in and whether or not
\* close() raised; a second disconnect() in a row changes nothing.
C8_DisconnectIdempotent ==
    res.op = "disconnect" =>
        LET a == adapters[res.obj]
        IN  /\ res.raised = "none"
            /\ a.conn = 0
            /\ ~a.connected
            /\ \A closeFails \in BOOLEAN :
                LET again == Adapter_disconnect(a, handles, closeFails)
                IN  /\ again.raised = "none"
                    /\ again.a = a
                    /\ again.hs = handles

\* A disconnect() of a connected adapter whose close() raised.
C8_Witness ==
    /\ res.op = "disconnect"
    /\ log = <<"native.close", "close raised">>
    /\ adapters[res.obj].last = "ok"
    /\ adapters[res.obj].conn = 0
    /\ ~adapters[res.obj].connected

\* C9: execute_query never raises.
C9_ExecuteQueryNeverRaises ==
    res.op = "execute_query" => res.raised = "none"

Called(call) ==
    \E k \in 1..Len(log) : log[k] = call

\* C11: every QueryResult an adapter's execute_query returns carries at most
\* one payload: a successful result that fetched rows has columns and rows set
\* and affected_rows absent, a successful result that did not has
\* affected_rows set and columns and rows absent, a failed one has none.
C11_OnePayloadPerOutcome ==
    res.op = "execute_query" /\ res.raised = "none" =>
        /\ ~(res.affected_rows = "set" /\ (res.columns = "set" \/ res.rows = "set"))
        /\ res.success /\ Called("native.fetchall") =>
            res.columns = "set" /\ res.rows = "set" /\ res.affected_rows = "None"
        /\ res.success /\ ~Called("native.fetchall") =>
            res.affected_rows = "set" /\ res.columns = "None" /\ res.rows = "None"
        /\ ~res.success =>
            res.columns = "None" /\ res.rows = "None" /\ res.affected_rows = "None"

\* A successful row-producing execute_query on the SQL Server adapter.
C11_Witness ==
    /\ res.op = "execute_query"
    /\ res.success
    /\ adapters[res.obj].db_type = "mssql"
    /\ log = <<"native.cursor", "native.execute", "native.fetchall">>
    /\ res.columns = "set"

\* commit() was called on the handle during the last call and returned.
Committed ==
    \E k \in 1..Len(log) :
        /\ log[k] = "native.commit"
        /\ k < Len(log) => log[k + 1] # "raised"

\* C12: execute_query decides the outcome from the leading keyword: a
\* statement that starts with one of the engine's row-producing keywords and
\* yields a result set returns columns and rows; every other statement that
\* executes without error is committed before the call returns and the result
\* carries the affected-row count; a statement that fails is never committed.
C12_ShapeFromLeadingKeyword ==
    res.op = "execute_query" /\ log # <<>> =>
        LET rowKeyword == is_select(adapters[res.obj].db_type, res.sql)
        IN  /\ res.success /\ rowKeyword /\ res.desc =>
                res.columns = "set" /\ res.rows = "set"
            /\ res.success /\ ~(rowKeyword /\ res.desc) =>
                Committed /\ res.affected_rows = "set"
            /\ ~res.success => ~Committed

\* C13: list_tables and describe_table on a connected adapter never raise, and
\* return an empty sequence when the catalog query or the reading of its rows
\* fails.
C13_CatalogNeverRaises ==
    res.op \in {"list_tables", "describe_table"}
    /\ is_connected(adapters[res.obj]) =>
        /\ res.raised = "none"
        /\ Called("raised") => res.payload = "empty"

\* The engine the factory is to select for each tag in use: the canonical
\* tags and the synonyms postgresql, sqlserver and dameng, in any letter case.
ClaimedEngine(tag) ==
    CASE tag \in {"mysql", "MySQL"} -> "mysql"
      [] tag \in {"postgres", "postgresql", "POSTGRESQL"} -> "postgres"
      [] tag \in {"mssql", "sqlserver", "SqlServer"} -> "mssql"
      [] tag \in {"dm8", "DM8", "dameng"} -> "dm8"
      [] tag \in {"sqlite", "SQLite"} -> "sqlite"
      [] OTHER -> ""

\* The factory failed with a ValueError that lists exactly the five canonical
\* types.
ValueErrorListsFive ==
    /\ res.raised = "ValueError"
    /\ Len(res.supported) = 5
    /\ {res.supported[k] : k \in 1..5} = Engines

\* C14 as stated: for every supported tag, in any letter case and including
\* the synonyms, the factory returns an adapter whose db_type is the canonical
\* tag; for every other tag it fails with a ValueError listing exactly the
\* five canonical types.
C14_FactoryMapsEveryTag ==
    res.op = "get_adapter" =>
        IF ClaimedEngine(res.tag) # ""
        THEN /\ res.raised = "none"
             /\ adapters[res.obj].db_type = ClaimedEngine(res.tag)
        ELSE ValueErrorListsFive

\* C14 amended: for every supported tag whose driver module is importable
\* (sqlite's always is) the factory returns a new, unconnected adapter whose
\* db_type is the canonical tag; for a supported tag whose driver module is
\* not installed it raises ImportError; for every other tag it fails with a
\* ValueError listing exactly the five canonical types.
C14_FactoryMapsInstalledTags ==
    res.op = "get_adapter" =>
        LET eng == ClaimedEngine(res.tag)
        IN  IF eng = "" THEN ValueErrorListsFive
            ELSE IF eng = "sqlite" \/ eng \in drivers
            THEN /\ res.raised = "none"
                 /\ adapters[res.obj] = NewAdapter(eng)
            ELSE res.raised = "ImportError" /\ res.obj = 0

\* The factory was given a mixed-case synonym and returned its adapter.
C14_Witness ==
    /\ res.op = "get_adapter"
    /\ res.tag = "SqlServer"
    /\ res.raised = "none"
    /\ adapters[res.obj].db_type = "mssql"

\* The manager's query and introspection calls.
QueryOps == {"execute_query", "list_tables", "describe_table"}

\* C15: when the manager holds no adapter, execute_query returns the fixed
\* "No database connection" failure and list_tables and describe_table return
\* an empty sequence, without calling anything, and the call leaves the
\* manager's adapter, config and connection_info as they were.
C15_NoAdapterShortCircuits ==
    [][mgrAdapter = 0 /\ res'.op \in QueryOps =>
        /\ res'.raised = "none"
        /\ log' = <<>>
        /\ res'.op = "execute_query" =>
            /\ ~res'.success
            /\ res'.error = "No database connection"
            /\ res'.message = "use connect_database"
            /\ res'.columns = "None" /\ res'.rows = "None"
            /\ res'.affected_rows = "None"
        /\ res'.op # "execute_query" => res'.payload = "empty"
        /\ UNCHANGED <<mgrAdapter, mgrConfig, mgrInfo>>]_vars

\* execute_query on a manager that disconnected: no adapter, the config of the
\* earlier connection still in place.
C15_Witness ==
    /\ res.op = "execute_query"
    /\ res.obj = 0
    /\ mgrAdapter = 0
    /\ mgrConfig # NoConfig
    /\ res.error = "No database connection"

\* The default port the substitution table is to hold for each engine.
ClaimedDefaultPort(dbtype) ==
    CASE dbtype = "mysql" -> 3306
      [] dbtype = "postgres" -> 5432
      [] dbtype = "mssql" -> 1433
      [] dbtype = "dm8" -> 5236
      [] dbtype = "sqlite" -> 0

\* C16: connect_database called with port = 0 passes the engine's default
\* port to the manager (mysql 3306, postgres 5432, mssql 1433, dm8 5236,
\* sqlite 0); called with any other port it passes that port unchanged; the
\* config of a connect that succeeded holds the port passed.
C16_DefaultPortSubstitution ==
    tool.op = "connect_database" /\ tool.called =>
        /\ tool.arg_port = 0 =>
            tool.passed_port = ClaimedDefaultPort(tool.passed_dbtype)
        /\ tool.arg_port # 0 => tool.passed_port = tool.arg_port
        /\ tool.success => mgrConfig.port = tool.passed_port

\* connect_database("MySQL", port = 0) connected on port 3306, or
\* connect_database("dm8", port = 0) reached the manager with port 5236.
C16_Witness ==
    /\ tool.op = "connect_database"
    /\ tool.called
    /\ tool.arg_port = 0
    /\ \/ tool.arg_dbtype = "MySQL" /\ tool.success /\ mgrConfig.port = 3306
       \/ tool.arg_dbtype = "dm8" /\ tool.passed_port = 5236

\* C17: connect_database called with a dbtype outside the supported list
\* returns success = false with the list of supported types and does not call
\* the manager: adapters, handles and the manager's adapter, config and
\* connection_info are as they were.
C17_UnsupportedDbtypeRejected ==
    [][tool'.op = "connect_database" /\ Lower(tool'.arg_dbtype) \notin Engines =>
        /\ ~tool'.success
        /\ tool'.supported_types = SupportedList
        /\ ~tool'.called
        /\ UNCHANGED <<adapters, handles, mgrAdapter, mgrConfig, mgrInfo>>]_vars

\* connect_database with an unsupported dbtype while a connection is live.
C17_Witness ==
    /\ tool.op = "connect_database"
    /\ tool.arg_dbtype = "oracle"
    /\ ~tool.called
    /\ tool.supported_types # <<>>
    /\ manager_is_connected

\* C18: for a full adapter result of T tables and a request with
\* 0 <= offset <= T and limit >= 0, the list_tables tool returns exactly the
\* tables at positions offset .. min(T, offset + limit) - 1 (counted from 0),
\* in the adapter's order, with table_count = min(limit, T - offset), the
\* requested offset echoed and total_count = T.
C18_PageOfFullResult ==
    tool.op = "list_tables" /\ tool.success
    /\ 0 <= tool.arg_offset /\ tool.arg_offset <= Len(tool.full)
    /\ tool.arg_limit >= 0 =>
        LET T == Len(tool.full)
            count == IF tool.arg_limit <= T - tool.arg_offset
                     THEN tool.arg_limit ELSE T - tool.arg_offset
        IN  /\ tool.tables = [k \in 1..count |-> tool.full[tool.arg_offset + k]]
            /\ tool.table_count = count
            /\ tool.offset = tool.arg_offset
            /\ tool.total_count = T

\* The last page of a result: the limit exceeds what is left after the offset.
C18_Witness ==
    /\ tool.op = "list_tables"
    /\ tool.success
    /\ tool.total_count = MaxItems
    /\ tool.arg_limit = 2
    /\ tool.arg_offset = MaxItems - 1
    /\ tool.table_count = 1
    /\ tool.tables = <<MaxItems>>

\* C19: for every integer offset and limit the reported offset lies in
\* [0, total_count], at most max(limit, 0) tables are returned, and no
\* returned table lies before the effective offset in the full result.
C19_PageClamped ==
    tool.op = "list_tables" /\ tool.success =>
        /\ 0 <= tool.offset /\ tool.offset <= tool.total_count
        /\ tool.table_count <= (IF tool.arg_limit > 0 THEN tool.arg_limit ELSE 0)
        /\ \A k \in 1..Len(tool.tables) : tool.tables[k] > tool.offset

\* C20: the describe_table tool returns success = false with a not-found
\* error whenever the manager's describe_table returned an empty column list,
\* and success = true with column_count = the number of columns otherwise.
C20_EmptyColumnsIsNotFound ==
    tool.op = "describe_table" /\ tool.called /\ res.raised = "none" =>
        IF res.payload = "empty"
        THEN /\ ~tool.success
             /\ tool.error = "Table not found or schema unavailable"
        ELSE /\ tool.success
             /\ tool.full # <<>>
             /\ tool.column_count = Len(tool.full)

\* describe_table where the adapter swallowed a driver error and returned [].
C20_Witness ==
    /\ tool.op = "describe_table"
    /\ tool.called
    /\ res.op = "describe_table"
    /\ res.payload = "empty"
    /\ Called("raised")
    /\ ~tool.success

\* C21: the response of get_connection_status does not depend on the
\* password: had the live connection been made with any other password, the
\* manager being otherwise the same, the response would be the one returned.
C21_StatusHidesPassword ==
    tool.op = "get_connection_status" /\ tool.connected =>
        \A p \in Passwords :
            StatusResponse(manager_is_connected, current_db_type,
                           [mgrConfig EXCEPT !.password = p]) = tool

\* get_connection_status on a connection made with the second password.
C21_Witness ==
    /\ tool.op = "get_connection_status"
    /\ tool.connected
    /\ mgrConfig.set
    /\ tool.config.dbname = mgrConfig.dbname
    /\ mgrConfig.password = "pw2"

\* C26: an adapter's connected flag is true only after the handshake and the
\* verification of a connect() succeeded: no adapter is connected whose most
\* recent connect() did not get through its verification queries.
C26_ConnectedOnlyAfterVerification ==
    \A i \in 1..Len(adapters) :
        adapters[i].connected => adapters[i].last = "ok"

\* C27: no connect() is attempted on a DM8 adapter while no candidate
\* location holds the driver artifact: the constructor has failed before, so
\* neither the lookup of connect() finds it missing nor is a network
\* connection attempted.
C27_Dm8ArtifactCheckedAtConstruction ==
    res.op = "connect" /\ res.obj # 0
    /\ adapters[res.obj].db_type = "dm8" =>
        ~Called("precheck.missing")

\* C28: the SQLite adapter's connect(), given a dbname other than ":memory:"
\* that does not exist, raises before any attempt to open the native handle:
\* no handle is opened, the adapter's handle is what it was (null on a new
\* adapter) and the adapter is not connected.
C28_SqliteNotFoundBeforeOpen ==
    [][res'.op = "connect" /\ res'.obj # 0
       /\ adapters'[res'.obj].db_type = "sqlite"
       /\ (\E k \in 1..Len(log') : log'[k] = "precheck.missing") =>
        /\ res'.raised = "ConnectionError"
        /\ \A k \in 1..Len(log') : log'[k] # "native.connect"
        /\ handles' = handles
        /\ ~adapters'[res'.obj].connected
        /\ adapters'[res'.obj].conn =
              (IF res'.obj <= Len(adapters) THEN adapters[res'.obj].conn
               ELSE 0)]_vars

\* connect() on a new SQLite adapter with a path that does not exist.
C28_Witness ==
    /\ res.op = "connect"
    /\ res.obj # 0
    /\ adapters[res.obj].db_type = "sqlite"
    /\ log = <<"precheck.missing">>
    /\ res.raised = "ConnectionError"
    /\ adapters[res.obj].conn = 0
    /\ ~adapters[res.obj].connected

\* C30: execute_query, list_tables and describe_table change no connection
\* state: whether the call succeeds, fails or raises, every adapter's
\* connected flag and handle, every native handle, and the manager's adapter,
\* config and connection_info are after the call what they were before it.
C30_QueriesKeepConnectionState ==
    [][res'.op \in QueryOps =>
        UNCHANGED <<adapters, handles, mgrAdapter, mgrConfig, mgrInfo>>]_vars

\* A statement failed on the live connection, which is still live.
C30_Witness ==
    /\ res.op = "execute_query"
    /\ ~res.success
    /\ Called("raised")
    /\ manager_is_connected
    /\ mgrInfo = "info"
    /\ handles[adapters[mgrAdapter].conn] = "open"

\* C29: whenever the manager is connected its config is non-null and is the
\* config of the connection that is live: the adapter held was connected by a
\* connect() that succeeded, and the config names that adapter's engine.
C29_ConfigIsLiveConnection ==
    manager_is_connected =>
        /\ mgrConfig.set
        /\ adapters[mgrAdapter].last = "ok"
        /\ CanonicalOf(Lower(mgrConfig.dbtype)) = adapters[mgrAdapter].db_type

\* What a cell is to become: a decimal a float, a date, time or timestamp
\* its ISO-8601 text, a duration its default text, bytes the decoded text
\* with every invalid byte replaced, anything else itself.
ClaimedCell(value) ==
    CASE value.type = "Decimal" -> [type |-> "float", v |-> value.v]
      [] value.type \in {"datetime", "date", "time"} ->
            [type |-> "str", v |-> <<"iso">> \o value.v]
      [] value.type = "timedelta" -> [type |-> "str", v |-> <<"str">> \o value.v]
      [] value.type = "bytes" ->
            [type |-> "str",
             v |-> [k \in 1..Len(value.v) |->
                        IF value.v[k] = "xFF" THEN "U+FFFD" ELSE value.v[k]]]
      [] OTHER -> value

\* C25: every cell of a row added to the result is the normalized form of the
\* cell fetched at its position: decimal to float, date/time/timestamp to
\* ISO-8601 text, duration to its default text, bytes to decoded text with
\* invalid sequences replaced, any other value unchanged.
C25_CellsNormalized ==
    res.op = "fetch_row" =>
        /\ Len(res.row_dict) = Len(res.raw)
        /\ \A k \in 1..Len(res.raw) : res.row_dict[k] = ClaimedCell(res.raw[k])

\* The fields an automatic connect needs: a non-empty DB_NAME for sqlite (the
\* engine when DB_TYPE is unset); non-empty DB_USER, DB_PASSWORD and DB_NAME
\* for every other engine.
SufficientFields(e) ==
    IF e.DB_TYPE = "unset" \/ Lower(e.DB_TYPE) = "sqlite"
    THEN e.DB_NAME # ""
    ELSE e.DB_USER # "" /\ e.DB_PASSWORD # "" /\ e.DB_NAME # ""

\* C22: at startup the automatic connect is attempted only when the
\* environment supplies sufficient fields, and when reading the configuration
\* or the connect attempt failed the server starts with the manager not
\* connected.
C22_StartupAutoConnect ==
    tool.op = "startup" =>
        /\ tool.called => SufficientFields(tool.environ)
        /\ tool.read # "none" \/ (tool.called /\ res.raised # "none")
              => ~manager_is_connected

\* C23: once app_lifespan has exited, manager.disconnect has run: the manager
\* holds no adapter and no connection_info, the adapter it held was
\* disconnected, and no adapter is connected.
C23_ShutdownDisconnects ==
    tool.op = "shutdown" =>
        /\ res.op = "disconnect"
        /\ mgrAdapter = 0
        /\ mgrInfo = "None"
        /\ res.obj # 0 =>
            /\ Called("adapter.disconnect")
            /\ adapters[res.obj].conn = 0
        /\ ConnectedAdapters = {}

\* Shutdown while a connection made through connect_database was live: its
\* handle was closed.
C23_Witness ==
    /\ tool.op = "shutdown"
    /\ res.obj # 0
    /\ adapters[res.obj].last = "ok"
    /\ Called("native.close")
    /\ mgrConfig.password = "pw2"

\* The five tools.
ToolOps ==
    {"connect_database", "execute_sql", "list_tables", "describe_table",
     "get_connection_status"}

\* C24: every tool call returns a response and lets nothing escape; every
\* failure response carries human-readable text (a message, and for the
\* rejection of an unsupported dbtype the error text); every response of
\* connect_database to a connect that failed carries suggestions.
C24_ToolsAlwaysRespond ==
    tool.op \in ToolOps =>
        /\ tool.raised = "none"
        /\ tool.op # "get_connection_status" /\ ~tool.success =>
            /\ tool.error # ""
            /\ tool.message # "" \/ tool.supported_types # <<>>
        /\ tool.op = "get_connection_status" => tool.message # ""
        /\ tool.op = "connect_database" /\ tool.called /\ ~tool.success =>
            tool.suggestions # "none"

\* execute_sql on a connection whose adapter let a non-driver error escape:
\* the tool answered with its unexpected-error response.
C24_Witness ==
    /\ tool.op = "execute_sql"
    /\ tool.called
    /\ res.raised = "Other"
    /\ tool.raised = "none"
    /\ ~tool.success
    /\ tool.message = "An unexpected error occurred"

====
